---- MODULE Spec2Model ----
(***************************************************************************)
(* A model of persist-treap.cpp: a persistent treap (PersistTreap) whose   *)
(* nodes live in a heap of shared_ptr<Node> cells.  The heap is a sequence *)
(* of Node records, an address is an index into it and Nil (0) is the      *)
(* empty shared_ptr.  Every function of the class is an operator that      *)
(* threads a machine record m = [h, wr, rd, cp] through its steps: h is    *)
(* the heap, wr the addresses of the nodes a field of which was written,   *)
(* rd the addresses of the nodes whose val field was read, and cp the      *)
(* pairs <<n, a>> of a new node n and the node a its val was copied from.  *)
(***************************************************************************)
EXTENDS Integers, Sequences, FiniteSets, TLC

\* ------------------------------------------------------------------ bounds
MaxKey == 3
MaxPri == 2
MaxVal == 2
MaxOps == 2
MaxPairOps == 1

Keys == 1..MaxKey
Pris == 1..MaxPri
Vals == 1..MaxVal

VARIABLES heap, versions, log, budget

vars == <<heap, versions, log, budget>>

\* ------------------------------------------------------------------ Node
Nil == 0

Node(k, v, p, l, r) ==
    [key |-> k, val |-> v, p |-> p, left |-> l, right |-> r]

\* make_shared<Node>() followed by the assignments of the new node's fields:
\* the node gets the next address, and it is the node written.
Alloc(m, n) ==
    [m EXCEPT !.h = Append(@, n), !.wr = @ \cup {Len(m.h) + 1}]

\* The address make_shared returned last.
Last(m) == Len(m.h)

\* A read of a->val, assigned to the val of the node made next.
ReadVal(m, a) ==
    [m EXCEPT !.rd = @ \cup {a}, !.cp = @ \cup {<<Len(m.h) + 1, a>>}]

\* An assignment w->left = x / w->right = x.
SetLeft(m, w, x) ==
    [m EXCEPT !.h[w].left = x, !.wr = @ \cup {w}]

SetRight(m, w, x) ==
    [m EXCEPT !.h[w].right = x, !.wr = @ \cup {w}]

Machine(h) == [h |-> h, wr |-> {}, rd |-> {}, cp |-> {}]

\* A statement whose result the statements after it use: e is computed once
\* and F is the rest of the block, with the result bound.
Bind(e, F(_)) == CHOOSE y \in {F(x) : x \in {e}} : TRUE

\* ------------------------------------------------------------------ split_rec
\* Faulty variant: the clone of a node left of which the key lies forgets v->right.
RecCloneGreaterDropsRight(h, v, r2) ==
    Node(h[v].key, h[v].val, h[v].p, r2, Nil)

\* split_rec, key < v->key: the clone of v, its left the greater half r2.
RecCloneGreater(h, v, r2) ==
    Node(h[v].key, h[v].val, h[v].p, r2, h[v].right)

\* split_rec, key > v->key: the clone of v, its right the smaller half r1.
RecCloneLess(h, v, r1) ==
    Node(h[v].key, h[v].val, h[v].p, h[v].left, r1)

RECURSIVE split_rec(_, _, _)
split_rec(m, v, key) ==
    IF v = Nil
    THEN [m |-> m, t1 |-> Nil, t2 |-> Nil, a |-> Nil]
    ELSE IF m.h[v].key = key
    THEN [m |-> m, t1 |-> m.h[v].left, t2 |-> m.h[v].right, a |-> v]
    ELSE IF key < m.h[v].key
    THEN Bind(split_rec(m, m.h[v].left, key), LAMBDA r :
         Bind(Alloc(ReadVal(r.m, v), RecCloneGreater(r.m.h, v, r.t2)), LAMBDA m2 :
         [m |-> m2, t1 |-> r.t1, t2 |-> Last(m2), a |-> r.a]))
    ELSE Bind(split_rec(m, m.h[v].right, key), LAMBDA r :
         Bind(Alloc(ReadVal(r.m, v), RecCloneLess(r.m.h, v, r.t1)), LAMBDA m2 :
         [m |-> m2, t1 |-> Last(m2), t2 |-> r.t2, a |-> r.a]))

\* ------------------------------------------------------------------ split_loop
\* The loop's variables are s = [m, v, t1, t2, result1, result2, a].  A hole
\* t1 (t2) is 0 when it points at the local result1 (result2) and an address
\* n when it points at the right (left) field of node n.

\* *t1 = x
StoreT1(s, x) ==
    IF s.t1 = 0
    THEN [s EXCEPT !.result1 = x]
    ELSE [s EXCEPT !.m = SetRight(s.m, s.t1, x)]

\* *t2 = x
StoreT2(s, x) ==
    IF s.t2 = 0
    THEN [s EXCEPT !.result2 = x]
    ELSE [s EXCEPT !.m = SetLeft(s.m, s.t2, x)]

\* Faulty variant: the matched node itself is stored as the smaller half.
MatchedLessKeepsNode(h, v) == v

\* split_loop, v->key == key: what *t1 receives.
MatchedLess(h, v) == h[v].left

\* split_loop, v->key == key: what *t2 receives.
MatchedGreater(h, v) == h[v].right

\* Faulty variant: t2 = &v->left, the hole is redirected into the original node.
NextT2IntoOriginal(v, vclone) == v

\* split_loop, key < v->key: t2 = &vclone->left.
NextT2(v, vclone) == vclone

\* split_loop, key > v->key: t1 = &vclone->right.
NextT1(v, vclone) == vclone

\* One pass of the while loop's body, v not nil.
LoopBody(s, key) ==
    IF s.m.h[s.v].key = key
    THEN Bind(StoreT1(s, MatchedLess(s.m.h, s.v)), LAMBDA s1 :
         Bind(StoreT2(s1, MatchedGreater(s1.m.h, s.v)), LAMBDA s2 :
         [s2 EXCEPT !.a = s.v, !.v = Nil]))
    ELSE IF key < s.m.h[s.v].key
    THEN Bind(Alloc(ReadVal(s.m, s.v),
                    Node(s.m.h[s.v].key, s.m.h[s.v].val, s.m.h[s.v].p,
                         Nil, s.m.h[s.v].right)), LAMBDA m2 :
         Bind(StoreT2([s EXCEPT !.m = m2], Last(m2)), LAMBDA s1 :
         [s1 EXCEPT !.t2 = NextT2(s.v, Last(m2)), !.v = s1.m.h[s.v].left]))
    ELSE Bind(Alloc(ReadVal(s.m, s.v),
                    Node(s.m.h[s.v].key, s.m.h[s.v].val, s.m.h[s.v].p,
                         s.m.h[s.v].left, Nil)), LAMBDA m2 :
         Bind(StoreT1([s EXCEPT !.m = m2], Last(m2)), LAMBDA s1 :
         [s1 EXCEPT !.t1 = NextT1(s.v, Last(m2)), !.v = s1.m.h[s.v].right]))

\* while (v)
RECURSIVE Loop(_, _)
Loop(s, key) ==
    IF s.v = Nil THEN s ELSE Bind(LoopBody(s, key), LAMBDA s1 : Loop(s1, key))

split_loop(m, v, key) ==
    Bind(Loop([m |-> m, v |-> v, t1 |-> 0, t2 |-> 0,
               result1 |-> Nil, result2 |-> Nil, a |-> Nil], key), LAMBDA s :
    [m |-> s.m, t1 |-> s.result1, t2 |-> s.result2, a |-> s.a])

split(m, v, key) == split_loop(m, v, key)

\* ------------------------------------------------------------------ join
\* Faulty variant: the root of larger priority is taken as the new root.
JoinLeftWinsInverted(h, v1, v2) == h[v1].p > h[v2].p

\* join: v1->p < v2->p, v1 becomes the new root.
JoinLeftWins(h, v1, v2) == h[v1].p < h[v2].p

RECURSIVE join(_, _, _)
join(m, v1, v2) ==
    IF v1 = Nil THEN [m |-> m, r |-> v2]
    ELSE IF v2 = Nil THEN [m |-> m, r |-> v1]
    ELSE IF JoinLeftWins(m.h, v1, v2)
    THEN Bind(Alloc(ReadVal(m, v1),
                    Node(m.h[v1].key, m.h[v1].val, m.h[v1].p, m.h[v1].left, Nil)),
              LAMBDA m1 :
         Bind(join(m1, m1.h[v1].right, v2), LAMBDA j :
         [m |-> SetRight(j.m, Last(m1), j.r), r |-> Last(m1)]))
    ELSE Bind(Alloc(ReadVal(m, v2),
                    Node(m.h[v2].key, m.h[v2].val, m.h[v2].p, Nil, m.h[v2].right)),
              LAMBDA m1 :
         Bind(join(m1, v1, m1.h[v2].left), LAMBDA j :
         [m |-> SetLeft(j.m, Last(m1), j.r), r |-> Last(m1)]))

\* ------------------------------------------------------------------ union_helper
\* Faulty variant: v1 becomes the new root on equal priorities too.
UnionLeftWinsTies(h, v1, v2) == h[v1].p <= h[v2].p

\* union_helper: v1->p < v2->p, v1 becomes the new root.
UnionLeftWins(h, v1, v2) == h[v1].p < h[v2].p

\* Faulty variant: the new root always keeps v2's value.
UnionValFromRight(a, v2) == v2

\* union_helper, v2 the new root: the node whose val the new root takes.
UnionValFrom(a, v2) == IF a # Nil THEN a ELSE v2

RECURSIVE union_helper(_, _, _)
union_helper(m, v1, v2) ==
    IF v1 = Nil THEN [m |-> m, r |-> v2]
    ELSE IF v2 = Nil THEN [m |-> m, r |-> v1]
    ELSE IF UnionLeftWins(m.h, v1, v2)
    THEN Bind(split(m, v2, m.h[v1].key), LAMBDA s :
         Bind(Alloc(ReadVal(s.m, v1),
                    Node(s.m.h[v1].key, s.m.h[v1].val, s.m.h[v1].p, Nil, Nil)),
              LAMBDA m1 :
         Bind(union_helper(m1, m1.h[v1].left, s.t1), LAMBDA l :
         Bind(SetLeft(l.m, Last(m1), l.r), LAMBDA m2 :
         Bind(union_helper(m2, m2.h[v1].right, s.t2), LAMBDA r :
         [m |-> SetRight(r.m, Last(m1), r.r), r |-> Last(m1)])))))
    ELSE Bind(split(m, v1, m.h[v2].key), LAMBDA s :
         Bind(Alloc(ReadVal(s.m, UnionValFrom(s.a, v2)),
                    Node(s.m.h[v2].key, s.m.h[UnionValFrom(s.a, v2)].val,
                         s.m.h[v2].p, Nil, Nil)),
              LAMBDA m1 :
         Bind(union_helper(m1, s.t1, m1.h[v2].left), LAMBDA l :
         Bind(SetLeft(l.m, Last(m1), l.r), LAMBDA m2 :
         Bind(union_helper(m2, s.t2, m2.h[v2].right), LAMBDA r :
         [m |-> SetRight(r.m, Last(m1), r.r), r |-> Last(m1)])))))

\* ------------------------------------------------------------------ intersect_helper
\* intersect_helper: v1->p < v2->p, v1 is the pivot.
IntersectLeftWins(h, v1, v2) == h[v1].p < h[v2].p

\* Faulty variant: the clone of v2 keeps v2's own value.
IntersectValFromPivot(a, v2) == v2

\* intersect_helper, v2 the pivot: the node whose val the clone takes.
IntersectValFrom(a, v2) == a

RECURSIVE intersect_helper(_, _, _)
intersect_helper(m, v1, v2) ==
    IF v1 = Nil \/ v2 = Nil THEN [m |-> m, r |-> Nil]
    ELSE IF IntersectLeftWins(m.h, v1, v2)
    THEN Bind(split(m, v2, m.h[v1].key), LAMBDA s :
         Bind(intersect_helper(s.m, s.m.h[v1].left, s.t1), LAMBDA l :
         Bind(intersect_helper(l.m, l.m.h[v1].right, s.t2), LAMBDA r :
         IF s.a = Nil
         THEN join(r.m, l.r, r.r)
         ELSE Bind(Alloc(ReadVal(r.m, v1),
                         Node(r.m.h[v1].key, r.m.h[v1].val, r.m.h[v1].p, l.r, r.r)),
                   LAMBDA m1 : [m |-> m1, r |-> Last(m1)]))))
    ELSE Bind(split(m, v1, m.h[v2].key), LAMBDA s :
         Bind(intersect_helper(s.m, s.t1, s.m.h[v2].left), LAMBDA l :
         Bind(intersect_helper(l.m, s.t2, l.m.h[v2].right), LAMBDA r :
         IF s.a = Nil
         THEN join(r.m, l.r, r.r)
         ELSE Bind(Alloc(ReadVal(r.m, IntersectValFrom(s.a, v2)),
                         Node(r.m.h[v2].key, r.m.h[IntersectValFrom(s.a, v2)].val,
                              r.m.h[v2].p, l.r, r.r)),
                   LAMBDA m1 : [m |-> m1, r |-> Last(m1)]))))

\* ------------------------------------------------------------------ difference_helper
\* Faulty variant: the pivot is kept when B holds its key.
PivotSurvivesInverted(a) == a # Nil

\* difference_helper: !a, v1's key is not in v2 and v1 appears in the output.
PivotSurvives(a) == a = Nil

\* Faulty variant: the excluded pivot takes its right subtree with it.
DropPivotLosesRight(m, left, right) == [m |-> m, r |-> left]

\* difference_helper, v1's key in v2: join left and right.
DropPivot(m, left, right) == join(m, left, right)

RECURSIVE difference_helper(_, _, _)
difference_helper(m, v1, v2) ==
    IF v1 = Nil THEN [m |-> m, r |-> Nil]
    ELSE IF v2 = Nil THEN [m |-> m, r |-> v1]
    ELSE Bind(split(m, v2, m.h[v1].key), LAMBDA s :
         Bind(difference_helper(s.m, s.m.h[v1].left, s.t1), LAMBDA l :
         Bind(difference_helper(l.m, l.m.h[v1].right, s.t2), LAMBDA r :
         IF PivotSurvives(s.a)
         THEN Bind(Alloc(ReadVal(r.m, v1),
                         Node(r.m.h[v1].key, r.m.h[v1].val, r.m.h[v1].p, l.r, r.r)),
                   LAMBDA m1 : [m |-> m1, r |-> Last(m1)])
         ELSE DropPivot(r.m, l.r, r.r))))

\* ------------------------------------------------------------------ PersistTreap
\* PersistTreap(key, val): a single node, its priority p drawn by rand().
PersistTreap(m, key, val, p) ==
    Bind(Alloc(m, Node(key, val, p, Nil, Nil)), LAMBDA m1 :
    [m |-> m1, r |-> Last(m1)])

treap_union(m, treap1, treap2) == union_helper(m, treap1, treap2)

intersection(m, treap1, treap2) == intersect_helper(m, treap1, treap2)

difference(m, treap1, treap2) == difference_helper(m, treap1, treap2)

\* Faulty variant: the dictionary is the left operand of the union.
insertRightBiased(m, this, key, val, p) ==
    Bind(PersistTreap(m, key, val, p), LAMBDA t : treap_union(t.m, this, t.r))

insert(m, this, key, val, p) ==
    Bind(PersistTreap(m, key, val, p), LAMBDA t : treap_union(t.m, t.r, this))

\* The value NULL converts to in PersistTreap(key, NULL).
Placeholder == 0

remove(m, this, key, p) ==
    Bind(PersistTreap(m, key, Placeholder, p), LAMBDA t : difference(t.m, this, t.r))

\* ------------------------------------------------------------------ initial treaps
\* The treaps the program can have built: every search-ordered, heap-ordered
\* tree over Keys and Pris.  (Each is built bottom-up: with L and R built and
\* S the singleton of the root, treap_union(R, treap_union(L, S)) has S's node
\* as root over L and R, since the second operand wins when its priority is
\* <= the first's.)  A tree is <<>> or a record.
RECURSIVE Treaps(_, _, _)
Treaps(lo, hi, minp) ==
    {<<>>} \cup
    UNION {UNION {{[key |-> k, p |-> p, left |-> l, right |-> r] :
                      l \in Treaps(lo, k - 1, p), r \in Treaps(k + 1, hi, p)} :
                  p \in minp..MaxPri} : k \in lo..hi}

AllTreaps == Treaps(1, MaxKey, 1)

\* The nodes of tree t laid out in the heap, each key k with value base + k.
RECURSIVE Load(_, _, _)
Load(h, t, base) ==
    IF t = <<>>
    THEN [h |-> h, r |-> Nil]
    ELSE LET l == Load(h, t.left, base)
             r == Load(l.h, t.right, base)
         IN  [h |-> Append(r.h, Node(t.key, base + t.key, t.p, l.r, r.r)),
              r |-> Len(r.h) + 1]

\* ------------------------------------------------------------------ log entries
Entry(op, x, y, key, val, p) ==
    [op |-> op, x |-> x, y |-> y, key |-> key, val |-> val, p |-> p,
     pre |-> heap, res |-> Nil, t1 |-> Nil, t2 |-> Nil, a |-> Nil,
     wr |-> {}, rd |-> {}, cp |-> {}]

Done(e, m) == [e EXCEPT !.wr = m.wr, !.rd = m.rd, !.cp = m.cp]

\* ------------------------------------------------------------------ actions
\* A call of split (the loop version) on the root of a version, as the set
\* operations make it.
Split(i, key) ==
    /\ budget > 0
    /\ \E s \in {split(Machine(heap), versions[i], key)} :
           /\ heap' = s.m.h
           /\ log' = Append(log, [Done(Entry("split", versions[i], Nil, key, 0, 0), s.m)
                                     EXCEPT !.t1 = s.t1, !.t2 = s.t2, !.a = s.a])
    /\ budget' = budget - 1
    /\ UNCHANGED versions

\* A call of split_rec on the root of a version.
SplitRec(i, key) ==
    /\ budget > 0
    /\ \E s \in {split_rec(Machine(heap), versions[i], key)} :
           /\ heap' = s.m.h
           /\ log' = Append(log, [Done(Entry("split_rec", versions[i], Nil, key, 0, 0), s.m)
                                     EXCEPT !.t1 = s.t1, !.t2 = s.t2, !.a = s.a])
    /\ budget' = budget - 1
    /\ UNCHANGED versions

\* The keys of the tree at r.
RECURSIVE TreeKeys(_, _)
TreeKeys(h, r) ==
    IF r = Nil
    THEN {}
    ELSE {h[r].key} \cup TreeKeys(h, h[r].left) \cup TreeKeys(h, h[r].right)

\* A call of join on the roots of two versions, the keys of the first smaller
\* than the keys of the second, as intersect_helper and difference_helper
\* make it.
Join(i, j) ==
    /\ budget > 0
    /\ \A k1 \in TreeKeys(heap, versions[i]), k2 \in TreeKeys(heap, versions[j]) : k1 < k2
    /\ \E f \in {join(Machine(heap), versions[i], versions[j])} :
           /\ heap' = f.m.h
           /\ log' = Append(log, [Done(Entry("join", versions[i], versions[j], 0, 0, 0), f.m)
                                     EXCEPT !.res = f.r])
    /\ budget' = budget - 1
    /\ UNCHANGED versions

\* The dictionary a call returned joins the versions.
Return(e, f) ==
    \E g \in {f} :
        /\ heap' = g.m.h
        /\ versions' = Append(versions, g.r)
        /\ log' = Append(log, [Done(e, g.m) EXCEPT !.res = g.r])
        /\ budget' = budget - 1

Insert(i, key, val, p) ==
    /\ budget > 0
    /\ Return(Entry("insert", versions[i], Nil, key, val, p),
              insert(Machine(heap), versions[i], key, val, p))

Remove(i, key, p) ==
    /\ budget > 0
    /\ Return(Entry("remove", versions[i], Nil, key, Placeholder, p),
              remove(Machine(heap), versions[i], key, p))

Union(i, j) ==
    /\ budget > 0
    /\ Return(Entry("union", versions[i], versions[j], 0, 0, 0),
              treap_union(Machine(heap), versions[i], versions[j]))

Intersection(i, j) ==
    /\ budget > 0
    /\ Return(Entry("intersection", versions[i], versions[j], 0, 0, 0),
              intersection(Machine(heap), versions[i], versions[j]))

Difference(i, j) ==
    /\ budget > 0
    /\ Return(Entry("difference", versions[i], versions[j], 0, 0, 0),
              difference(Machine(heap), versions[i], versions[j]))

\* One dictionary, any treap, and MaxOps calls.
Init ==
    \E ta \in AllTreaps :
        LET a == Load(<<>>, ta, 10)
        IN  /\ heap = a.h
            /\ versions = <<a.r>>
            /\ log = <<>>
            /\ budget = MaxOps

\* Two dictionaries, any two treaps, and MaxPairOps calls.
InitPair ==
    \E ta \in AllTreaps, tb \in AllTreaps :
        LET a == Load(<<>>, ta, 10)
            b == Load(a.h, tb, 20)
        IN  /\ heap = b.h
            /\ versions = <<a.r, b.r>>
            /\ log = <<>>
            /\ budget = MaxPairOps

Next ==
    \/ \E i \in DOMAIN versions, k \in Keys, v \in Vals, p \in Pris : Insert(i, k, v, p)
    \/ \E i \in DOMAIN versions, k \in Keys, p \in Pris : Remove(i, k, p)
    \/ \E i \in DOMAIN versions, j \in DOMAIN versions : Union(i, j)
    \/ \E i \in DOMAIN versions, j \in DOMAIN versions : Intersection(i, j)
    \/ \E i \in DOMAIN versions, j \in DOMAIN versions : Difference(i, j)
    \/ \E i \in DOMAIN versions, k \in Keys : Split(i, k)
    \/ \E i \in DOMAIN versions, k \in Keys : SplitRec(i, k)
    \/ \E i \in DOMAIN versions, j \in DOMAIN versions : Join(i, j)

Spec == Init /\ [][Next]_vars

SpecPair == InitPair /\ [][Next]_vars

\* ------------------------------------------------------------------ observations
\* The in-order traversal of the tree at r: its <<key, value>> pairs.
RECURSIVE Content(_, _)
Content(h, r) ==
    IF r = Nil
    THEN <<>>
    ELSE Content(h, h[r].left) \o <<<<h[r].key, h[r].val>>>> \o Content(h, h[r].right)

Pairs(c) == {c[i] : i \in DOMAIN c}

KeysOf(c) == {c[i][1] : i \in DOMAIN c}

\* Keys strictly ascending: every key once.
Ascending(c) == \A i \in 1..(Len(c) - 1) : c[i][1] < c[i + 1][1]

\* The addresses of the nodes of the tree at r.
RECURSIVE Reach(_, _)
Reach(h, r) ==
    IF r = Nil THEN {} ELSE {r} \cup Reach(h, h[r].left) \cup Reach(h, h[r].right)

\* Invariant 1: left-subtree keys < key < right-subtree keys, within (lo, hi).
RECURSIVE SearchOrdered(_, _, _, _)
SearchOrdered(h, r, lo, hi) ==
    \/ r = Nil
    \/ /\ lo < h[r].key
       /\ h[r].key < hi
       /\ SearchOrdered(h, h[r].left, lo, h[r].key)
       /\ SearchOrdered(h, h[r].right, h[r].key, hi)

\* Invariant 2: a node's priority is <= that of each of its children.
RECURSIVE HeapOrdered(_, _)
HeapOrdered(h, r) ==
    \/ r = Nil
    \/ /\ \A c \in {h[r].left, h[r].right} \ {Nil} : h[r].p <= h[c].p
       /\ HeapOrdered(h, h[r].left)
       /\ HeapOrdered(h, h[r].right)

IsTreap(h, r) == SearchOrdered(h, r, 0, MaxKey + 1) /\ HeapOrdered(h, r)

\* The call made last, and whether the last call was op.
Top == log[Len(log)]

Called(op) == log # <<>> /\ Top.op = op

\* The operands of the last call as they were when it was made, and its result.
TopA == Content(Top.pre, Top.x)

TopB == Content(Top.pre, Top.y)

TopR == Content(heap, Top.res)

\* The node the val of node n came from in the last call: n itself when the
\* call copied no val into it.
RECURSIVE Origin(_)
Origin(n) ==
    IF \E c \in Top.cp : c[1] = n
    THEN Origin((CHOOSE c \in Top.cp : c[1] = n)[2])
    ELSE n

\* ------------------------------------------------------------------ claims
\* C1: the content of treap_union(A, B) has the keys of A and of B, each once,
\* a key of A with A's value and any other key with B's value.
UnionIsLeftBiased ==
    Called("union") =>
        /\ Ascending(TopR)
        /\ KeysOf(TopR) = KeysOf(TopA) \cup KeysOf(TopB)
        /\ Pairs(TopR) = Pairs(TopA) \cup {q \in Pairs(TopB) : q[1] \notin KeysOf(TopA)}

\* C1 witness: a union won by B's root, whose key A holds with another value.
UnionRightRootMatched ==
    /\ Called("union")
    /\ Top.x # Nil /\ Top.y # Nil
    /\ Top.pre[Top.x].p >= Top.pre[Top.y].p
    /\ Top.pre[Top.y].key \in KeysOf(TopA)
    /\ Top.pre[Top.y].key # Top.pre[Top.x].key
    /\ \E q \in Pairs(TopB) : q[1] = Top.pre[Top.y].key /\ q \notin Pairs(TopA)
    /\ KeysOf(TopB) \ KeysOf(TopA) # {}

\* C2: the content of intersection(A, B) has the keys A and B share, each with
\* A's value.
IntersectionHasLeftValues ==
    Called("intersection") =>
        /\ Ascending(TopR)
        /\ KeysOf(TopR) = KeysOf(TopA) \cap KeysOf(TopB)
        /\ Pairs(TopR) = {q \in Pairs(TopA) : q[1] \in KeysOf(TopB)}

\* C2 witness: an intersection whose pivot is B's root, matched by a node of A
\* that is not A's root and holds another value.
IntersectionRightPivotMatched ==
    /\ Called("intersection")
    /\ Top.x # Nil /\ Top.y # Nil
    /\ Top.pre[Top.x].p >= Top.pre[Top.y].p
    /\ Top.pre[Top.y].key \in KeysOf(TopA)
    /\ Top.pre[Top.y].key # Top.pre[Top.x].key
    /\ \E q \in Pairs(TopB) : q[1] = Top.pre[Top.y].key /\ q \notin Pairs(TopA)
    /\ KeysOf(TopA) \ KeysOf(TopB) # {}

\* C3: the content of difference(A, B) has the keys of A that B lacks, each with
\* A's value, and nothing of B: the val of every node of the result is that of
\* the node of A with its key, and of no node of B.
DifferenceKeepsLeftOnly ==
    Called("difference") =>
        /\ Ascending(TopR)
        /\ KeysOf(TopR) = KeysOf(TopA) \ KeysOf(TopB)
        /\ Pairs(TopR) \subseteq Pairs(TopA)
        /\ KeysOf(TopR) \cap KeysOf(TopB) = {}
        /\ \A n \in Reach(heap, Top.res) :
              /\ Origin(n) \in Reach(Top.pre, Top.x) \ Reach(Top.pre, Top.y)
              /\ Top.pre[Origin(n)].key = heap[n].key
              /\ Top.pre[Origin(n)].val = heap[n].val

\* C3 witness: a difference that drops a node of A with two subtrees and keeps
\* the entries of both.
DifferenceDropsInnerNode ==
    /\ Called("difference")
    /\ Top.x # Top.y
    /\ \E a \in Reach(Top.pre, Top.x) :
          /\ Top.pre[a].key \in KeysOf(TopB)
          /\ Top.pre[a].left # Nil
          /\ Top.pre[a].right # Nil
    /\ Len(TopR) >= 2

\* ------------------------------------------------------------------ C4
\* The tree at r as it lies in the heap: each node with its address.
RECURSIVE Shape(_, _)
Shape(h, r) ==
    IF r = Nil
    THEN <<>>
    ELSE <<r, h[r].key, h[r].val, h[r].p, Shape(h, h[r].left), Shape(h, h[r].right)>>

\* C4: no call writes a field of a node that existed before the call: every
\* node written was allocated by the call, and the shape and the content of
\* every version are the same before and after it.
NoCallWritesAnOldNode ==
    [][/\ Len(heap') >= Len(heap)
       /\ \A a \in 1..Len(heap) : heap'[a] = heap[a]
       /\ log' # log => log'[Len(log')].wr \subseteq (Len(heap) + 1)..Len(heap')
       /\ \A i \in DOMAIN versions :
             /\ versions'[i] = versions[i]
             /\ Shape(heap', versions[i]) = Shape(heap, versions[i])
             /\ Content(heap', versions[i]) = Content(heap, versions[i])]_vars

\* C4 witness: a second call, on a dictionary that shares nodes with an earlier
\* version, has written three nodes or more and returned a dictionary that
\* shares nodes with that version too.
CallOnSharedNodes ==
    /\ Len(log) = 2
    /\ log[1].op \in {"insert", "remove", "union", "intersection", "difference"}
    /\ log[2].op \in {"insert", "remove", "union", "intersection", "difference"}
    /\ log[2].x = versions[2]
    /\ Reach(heap, versions[2]) \cap Reach(heap, versions[1]) # {}
    /\ versions[2] \notin Reach(heap, versions[1])
    /\ Reach(heap, versions[3]) \cap Reach(heap, versions[1]) # {}
    /\ Cardinality(log[2].wr) >= 3

\* ------------------------------------------------------------------ C5
\* C5: every dictionary satisfies the search-tree order (keys unique) and the
\* min-heap order on p, at every node.
EveryVersionIsATreap ==
    \A i \in DOMAIN versions : IsTreap(heap, versions[i])

\* C5 witness: a difference that dropped a node of A and joined its two
\* subtrees, of equal root priority, and a key lies in both operands with
\* different priorities.
JoinedOnEqualPriorities ==
    /\ Called("difference")
    /\ Len(TopR) >= 2
    /\ \E a \in Reach(Top.pre, Top.x) :
          /\ Top.pre[a].key \notin KeysOf(TopR)
          /\ Top.pre[a].left # Nil /\ Top.pre[a].right # Nil
          /\ Top.pre[Top.pre[a].left].p = Top.pre[Top.pre[a].right].p
    /\ \E a \in Reach(Top.pre, Top.x), b \in Reach(Top.pre, Top.y) :
          Top.pre[a].key = Top.pre[b].key /\ Top.pre[a].p # Top.pre[b].p

\* ------------------------------------------------------------------ C6
\* C6: D.insert(k, v) has D's content with k mapped to v: v replaces the value
\* k had, and every other entry keeps its key and value.
InsertMapsKeyToValue ==
    Called("insert") =>
        /\ Ascending(TopR)
        /\ Pairs(TopR) = {q \in Pairs(TopA) : q[1] # Top.key} \cup {<<Top.key, Top.val>>}

\* C6 witness: the key was present below D's root with another value, and the
\* singleton's priority lost against D's root.
InsertOverwritesBelowRoot ==
    /\ Called("insert")
    /\ Top.key \in KeysOf(TopA)
    /\ <<Top.key, Top.val>> \notin Pairs(TopA)
    /\ Top.pre[Top.x].key # Top.key
    /\ Top.p >= Top.pre[Top.x].p
    /\ Len(TopA) >= 3

\* ------------------------------------------------------------------ C7
\* The insert and the remove of the same key, one after the other.
RoundTrip ==
    /\ Len(log) = 2
    /\ log[1].op = "insert"
    /\ log[2].op = "remove"
    /\ log[2].x = log[1].res
    /\ log[2].key = log[1].key
    /\ log[1].key \notin KeysOf(Content(log[1].pre, log[1].x))

\* C7: D.remove(k) has exactly D's entries of another key, unchanged (D's
\* content when k is absent), and remove(insert(A, k, v), k) has A's content
\* when k is absent from A.
RemoveDropsOnlyTheKey ==
    /\ Called("remove") =>
          /\ Ascending(TopR)
          /\ Pairs(TopR) = {q \in Pairs(TopA) : q[1] # Top.key}
          /\ Top.key \notin KeysOf(TopA) => TopR = TopA
    /\ RoundTrip => TopR = Content(log[1].pre, log[1].x)

\* C7 witness: a key inserted between two entries of A and removed again.
RoundTripInTheMiddle ==
    /\ RoundTrip
    /\ \E q \in Pairs(TopR) : q[1] < Top.key
    /\ \E q \in Pairs(TopR) : q[1] > Top.key

\* ------------------------------------------------------------------ C8
\* The entries of c whose key is below (above) key.
Below(c, key) == SelectSeq(c, LAMBDA q : q[1] < key)

Above(c, key) == SelectSeq(c, LAMBDA q : q[1] > key)

\* C8: split(root, key) returns less with exactly the entries of a key below
\* key, greater with exactly those above, and as matched the node of root that
\* has the key, nil when there is none; less and greater are treaps.
SplitPartitionsAroundKey ==
    Called("split") =>
        /\ Content(heap, Top.t1) = Below(TopA, Top.key)
        /\ Content(heap, Top.t2) = Above(TopA, Top.key)
        /\ Top.key \notin KeysOf(Content(heap, Top.t1)) \cup KeysOf(Content(heap, Top.t2))
        /\ IF Top.key \in KeysOf(TopA)
           THEN /\ Top.a \in Reach(Top.pre, Top.x)
                /\ Top.pre[Top.a].key = Top.key
                /\ heap[Top.a] = Top.pre[Top.a]
           ELSE Top.a = Nil
        /\ IsTreap(heap, Top.t1)
        /\ IsTreap(heap, Top.t2)

\* C8 witness: a split around a key found below the root, both halves non-empty.
SplitMatchedBelowRoot ==
    /\ Called("split")
    /\ Top.a # Nil
    /\ Top.a # Top.x
    /\ Top.t1 # Nil
    /\ Top.t2 # Nil

\* ------------------------------------------------------------------ C9
\* The nodes of the search path for key above the split point, root first.
RECURSIVE Path(_, _, _)
Path(h, v, key) ==
    IF v = Nil \/ h[v].key = key
    THEN <<>>
    ELSE <<v>> \o Path(h, IF key < h[v].key THEN h[v].left ELSE h[v].right, key)

\* The tree at r with the nodes allocated after base made anonymous: a node
\* that existed before is the reference to it, a new node its fields.
RECURSIVE Anon(_, _, _)
Anon(h, r, base) ==
    IF r = Nil THEN <<>>
    ELSE IF r <= base THEN <<r>>
    ELSE <<h[r].key, h[r].val, h[r].p, Anon(h, h[r].left, base), Anon(h, h[r].right, base)>>

\* What a split returned, its clones anonymous.
Outcome(h, t1, t2, a, base) ==
    <<Anon(h, t1, base), Anon(h, t2, base), a, Len(h) - base>>

\* The clones made since base are those of the nodes of path, one each, and
\* each shares the subtree of its node that the search did not enter.
ClonesPath(h, base, path, key) ==
    /\ Len(h) - base = Len(path)
    /\ \E f \in [1..Len(path) -> (base + 1)..Len(h)] :
          /\ \A i, j \in 1..Len(path) : f[i] = f[j] => i = j
          /\ \A i \in 1..Len(path) :
                /\ h[f[i]].key = h[path[i]].key
                /\ h[f[i]].val = h[path[i]].val
                /\ h[f[i]].p = h[path[i]].p
                /\ IF key < h[path[i]].key
                   THEN h[f[i]].right = h[path[i]].right
                   ELSE h[f[i]].left = h[path[i]].left

\* The other version of split run on the operands of the last call.
OtherSplit ==
    IF Top.op = "split"
    THEN split_rec(Machine(Top.pre), Top.x, Top.key)
    ELSE split_loop(Machine(Top.pre), Top.x, Top.key)

\* C9: split_loop and split_rec return the same matched node and the same less
\* and greater trees, node for node, both clone each node of the search path
\* above the split point once and share every subtree off the path.
SplitLoopEqualsSplitRec ==
    Called("split") \/ Called("split_rec") =>
        /\ Outcome(heap, Top.t1, Top.t2, Top.a, Len(Top.pre))
              = Outcome(OtherSplit.m.h, OtherSplit.t1, OtherSplit.t2, OtherSplit.a,
                        Len(Top.pre))
        /\ ClonesPath(heap, Len(Top.pre), Path(Top.pre, Top.x, Top.key), Top.key)
        /\ ClonesPath(OtherSplit.m.h, Len(Top.pre), Path(Top.pre, Top.x, Top.key), Top.key)

\* C9 witness: a split by the loop whose search went left and right and ended
\* on no node: both holes were redirected into clones.
SplitLoopZigZagAbsent ==
    /\ Called("split")
    /\ Top.a = Nil
    /\ Len(Path(Top.pre, Top.x, Top.key)) >= 2
    /\ \E i, j \in DOMAIN Path(Top.pre, Top.x, Top.key) :
          /\ Top.pre[Path(Top.pre, Top.x, Top.key)[i]].key < Top.key
          /\ Top.pre[Path(Top.pre, Top.x, Top.key)[j]].key > Top.key

\* ------------------------------------------------------------------ C10
\* The temporary singleton of the last remove: the first node it allocated.
Singleton == Len(Top.pre) + 1

\* C10: during remove(key) no step reads the val field of the temporary
\* singleton, and no node allocated by the call has its val taken from it.
PlaceholderIsNeverRead ==
    Called("remove") =>
        /\ Singleton \notin Top.rd
        /\ \A c \in Top.cp : c[2] # Singleton

\* ------------------------------------------------------------------ C11
\* The operand of the last call whose root the code takes as the new root
\* (the pivot): the first only when its priority is strictly smaller.
Winner == IF Top.pre[Top.x].p < Top.pre[Top.y].p THEN Top.x ELSE Top.y

\* The root the last call returned has the key and the priority of node w and
\* is a node the call made.
RootIsCloneOf(w) ==
    /\ Top.res > Len(Top.pre)
    /\ heap[Top.res].key = Top.pre[w].key
    /\ heap[Top.res].p = Top.pre[w].p

\* C11: in join, union_helper and intersect_helper the first operand's root
\* becomes the new root (in intersect_helper: the pivot, the root when both
\* hold its key) only when its priority is strictly smaller than the second's;
\* on equal priorities it is the second operand's root.
TieGoesToTheSecondOperand ==
    /\ (Called("join") \/ Called("union")) /\ Top.x # Nil /\ Top.y # Nil =>
          /\ RootIsCloneOf(Winner)
          /\ Top.pre[Top.x].p = Top.pre[Top.y].p => RootIsCloneOf(Top.y)
    /\ Called("intersection") /\ Top.x # Nil /\ Top.y # Nil
          /\ Top.pre[Winner].key \in KeysOf(TopA) \cap KeysOf(TopB) =>
          /\ RootIsCloneOf(Winner)
          /\ Top.pre[Top.x].p = Top.pre[Top.y].p => RootIsCloneOf(Top.y)

\* C11 witness: a join of two non-empty trees whose roots have the same
\* priority returned the clone of the second's root, the first tree below it.
JoinedOnATie ==
    /\ Called("join")
    /\ Top.x # Nil /\ Top.y # Nil
    /\ Top.pre[Top.x].p = Top.pre[Top.y].p
    /\ heap[Top.res].key = Top.pre[Top.y].key
    /\ heap[Top.res].key # Top.pre[Top.x].key
    /\ heap[Top.res].left # Nil

====
